---- MODULE Spec2Model ----
(***************************************************************************)
(* mcp-variance-log: the tool dispatcher (server.handle_call_tool) and the *)
(* store adapter (db_utils.LogDatabase) as a state machine.                *)
(*                                                                         *)
(* Texts are TLA+ strings handled character by character (strip, upper,    *)
(* startswith, slicing), argument bags are partial maps from field names   *)
(* to tagged Python values, the SQLite file is the committed table plus    *)
(* its AUTOINCREMENT counter, and every handler is one action except       *)
(* append_insight, which is split at its only await.                       *)
(***************************************************************************)
EXTENDS Integers, Sequences, FiniteSets, TLC

VARIABLES
    db,             \* the SQLite file: committed contents of chat_monitoring
    clock,          \* the store's CURRENT_TIMESTAMP, as a day number
    insights,       \* LogDatabase.insights
    pending,        \* append_insight invocations suspended at their await
    notifications,  \* resource-updated notifications handed to the session
    submitted,      \* history: insights in the order they were submitted
    last            \* the result waiting to be sent, with the invocation it answers

vars == <<db, clock, insights, pending, notifications, submitted, last>>

-----------------------------------------------------------------------------
(* Bounds of the model. *)

MaxId == 2          \* log_id values handed out by the store
MaxTime == 2        \* days the store clock runs through
MaxInsights == 2    \* append_insight invocations that append
MaxPending == 2     \* append_insight invocations suspended at once

-----------------------------------------------------------------------------
(* Python str operations, character by character. *)

Whitespace == {" ", "\t", "\n"}

LowerAlpha == "abcdefghijklmnopqrstuvwxyz"
UpperAlpha == "ABCDEFGHIJKLMNOPQRSTUVWXYZ"

CharAt(s, i) == SubSeq(s, i, i)

Letters == { CharAt(LowerAlpha, i) : i \in 1..Len(LowerAlpha) }

UpperMap ==
    [c \in Letters |->
        CharAt(UpperAlpha, CHOOSE i \in 1..Len(LowerAlpha) : CharAt(LowerAlpha, i) = c)]

\* str.upper() on one character
UpperChar(c) == IF c \in Letters THEN UpperMap[c] ELSE c

RECURSIVE Upper(_)
\* str.upper()
Upper(s) ==
    IF Len(s) = 0 THEN ""
    ELSE IF Len(s) = 1 THEN UpperChar(s)
    ELSE LET half == Len(s) \div 2
         IN  Upper(SubSeq(s, 1, half)) \o Upper(SubSeq(s, half + 1, Len(s)))

RECURSIVE LStrip(_)
LStrip(s) ==
    IF Len(s) > 0 /\ CharAt(s, 1) \in Whitespace
    THEN LStrip(SubSeq(s, 2, Len(s)))
    ELSE s

RECURSIVE RStrip(_)
RStrip(s) ==
    IF Len(s) > 0 /\ CharAt(s, Len(s)) \in Whitespace
    THEN RStrip(SubSeq(s, 1, Len(s) - 1))
    ELSE s

\* str.strip()
Strip(s) == RStrip(LStrip(s))

\* str.startswith(prefix)
StartsWith(s, prefix) ==
    /\ Len(s) >= Len(prefix)
    /\ SubSeq(s, 1, Len(prefix)) = prefix

\* s[:n]
Prefix(s, n) == SubSeq(s, 1, IF Len(s) < n THEN Len(s) ELSE n)

\* s[a:b] with 0 <= a <= b (Python indices)
Slice(s, a, b) ==
    LET hi == IF Len(s) < b THEN Len(s) ELSE b
    IN  IF a >= hi THEN "" ELSE SubSeq(s, a + 1, hi)

Min(a, b) == IF a < b THEN a ELSE b
Max(a, b) == IF a > b THEN a ELSE b

-----------------------------------------------------------------------------
(* Python values and argument bags. *)

StrV(s) == [t |-> "str", s |-> s, n |-> 0]
IntV(k) == [t |-> "int", s |-> "", n |-> k]
BoolV(b) == [t |-> "bool", s |-> "", n |-> IF b THEN 1 ELSE 0]

\* arguments: dict | None
NoneBag == [none |-> TRUE, kv |-> <<>>]
Bag(kv) == [none |-> FALSE, kv |-> kv]

\* `not arguments`
Falsy(args) == args.none \/ DOMAIN args.kv = {}
\* `key in arguments`, for a dict
Has(args, key) == key \in DOMAIN args.kv

\* A Python call either returns a value or raises: exc is "" (returned),
\* "sqlite3.Error" or "Exception" (any other exception class).
Returned(v) == [exc |-> "", msg |-> "", value |-> v]
Raised(class, msg) == [exc |-> class, msg |-> msg, value |-> <<>>]

-----------------------------------------------------------------------------
(* The relational engine behind sqlite3: one table, chat_monitoring. *)

Null == "<NULL>"
\* str(x) of a column value
PyStr(v) == IF v = Null THEN "None" ELSE v

TableName == "chat_monitoring"

Digits == "0123456789"
\* the decimal text of a small natural number
RECURSIVE NatText(_)
NatText(k) ==
    IF k < 10 THEN CharAt(Digits, k + 1)
    ELSE NatText(k \div 10) \o CharAt(Digits, (k % 10) + 1)

\* CURRENT_TIMESTAMP on day d, as SQLite stores it
TsText(d) == "2024-01-0" \o NatText(d) \o " 10:00:00"

Row(id, day, f) ==
    [log_id |-> NatText(id), timestamp |-> TsText(day),
     session_id |-> f.session_id, user_id |-> f.user_id,
     interaction_type |-> f.interaction_type,
     probability_class |-> f.probability_class,
     message_content |-> f.message_content,
     response_content |-> f.response_content,
     context_summary |-> f.context_summary, reasoning |-> f.reasoning]

NullFields ==
    [session_id |-> Null, user_id |-> Null, interaction_type |-> Null,
     probability_class |-> Null, message_content |-> Null,
     response_content |-> Null, context_summary |-> Null, reasoning |-> Null]

UpperLetters == { CharAt(UpperAlpha, i) : i \in 1..Len(UpperAlpha) }
IsLetter(c) == c \in Letters \cup UpperLetters

RECURSIVE Word(_)
\* the leading run of letters of s
Word(s) ==
    IF Len(s) > 0 /\ IsLetter(CharAt(s, 1))
    THEN CharAt(s, 1) \o Word(SubSeq(s, 2, Len(s)))
    ELSE ""

\* the statement's first keyword as the SQL tokenizer reads it
Keyword(text) == Upper(Word(LStrip(text)))
\* the keyword after the first
Keyword2(text) ==
    LET s == LStrip(text)
        w == Word(s)
    IN  Keyword(SubSeq(s, Len(w) + 1, Len(s)))

\* the two catalogue queries of the dispatcher
ListTablesSql == "SELECT name FROM sqlite_master WHERE type='table'"
DescribeTableSql == "SELECT sql FROM sqlite_master WHERE type='table' AND name=?"

\* What sqlite3's cursor.execute does with one statement on database d on
\* day `day`: err is the sqlite3.Error message ("" when it ran), d the
\* database as the connection now sees it, txn whether that view is an open
\* transaction (DML) that only conn.commit() makes durable, rows what
\* fetchall() yields, rowcount cursor.rowcount.
Execute(d, text, params, day) ==
    LET k == Keyword(text)
        ran(d2, txn, rows, n) ==
            [err |-> "", d |-> d2, txn |-> txn, rows |-> rows, rowcount |-> n]
        fails(msg) ==
            [err |-> msg, d |-> d, txn |-> FALSE, rows |-> <<>>, rowcount |-> -1]
        missing == fails("no such table: " \o TableName)
    IN  CASE Strip(text) = "" -> ran(d, FALSE, <<>>, -1)
          [] text = ListTablesSql ->
                ran(d, FALSE, IF d.exists THEN <<[name |-> TableName]>> ELSE <<>>, -1)
          [] text = DescribeTableSql ->
                ran(d, FALSE,
                    IF d.exists /\ params = <<TableName>>
                    THEN <<[sql |-> d.sql]>> ELSE <<>>, -1)
          [] k = "SELECT" ->
                IF d.exists THEN ran(d, FALSE, d.rows, -1) ELSE missing
          [] k \in {"INSERT", "REPLACE"} ->
                IF d.exists
                THEN ran([d EXCEPT !.rows = Append(@, Row(d.nextId, day, NullFields)),
                                   !.nextId = @ + 1], TRUE, <<>>, 1)
                ELSE missing
          [] k = "DELETE" ->
                IF d.exists
                THEN ran([d EXCEPT !.rows = <<>>], TRUE, <<>>, Len(d.rows))
                ELSE missing
          [] k = "CREATE" /\ Keyword2(text) = "TABLE" ->
                IF d.exists
                THEN fails("table " \o TableName \o " already exists")
                ELSE ran([d EXCEPT !.exists = TRUE, !.sql = Strip(text)],
                         FALSE, <<>>, -1)
          [] OTHER -> fails("near \"" \o Word(LStrip(text)) \o "\": syntax error")

\* A failure of the store that no statement causes (file locked, disk error).
Locked == "database is locked"

\* text comparison as SQLite's BINARY collation orders timestamps
CharOrder == " -0123456789:T"
Code(c) == CHOOSE i \in 1..Len(CharOrder) : CharAt(CharOrder, i) = c

RECURSIVE TextLeq(_, _)
TextLeq(a, b) ==
    IF Len(a) = 0 THEN TRUE
    ELSE IF Len(b) = 0 THEN FALSE
    ELSE IF CharAt(a, 1) = CharAt(b, 1)
         THEN TextLeq(SubSeq(a, 2, Len(a)), SubSeq(b, 2, Len(b)))
         ELSE Code(CharAt(a, 1)) < Code(CharAt(b, 1))

-----------------------------------------------------------------------------
(* db_utils.LogDatabase *)

CommitKeywords == {"INSERT", "UPDATE", "DELETE", "CREATE", "DROP", "ALTER"}

\* the test of line 41: query.strip().upper().startswith((...))
IsWriteStatement(query) ==
    LET text == Upper(Strip(query))
    IN  \E k \in CommitKeywords : StartsWith(text, k)

\* LogDatabase._execute_query: the outcome of the call and the database file
\* after the connection is closed.
ExecuteQuery(d, query, params, day, locked) ==
    LET r == Execute(d, query, params, day)
    IN  IF locked
        THEN [out |-> Raised("sqlite3.Error", Locked), db |-> d]
        ELSE IF r.err # ""
        THEN [out |-> Raised("sqlite3.Error", r.err), db |-> d]
        ELSE IF IsWriteStatement(query)
        THEN [out |-> Returned(<<[affected_rows |-> r.rowcount]>>), db |-> r.d]
        ELSE [out |-> Returned(r.rows), db |-> IF r.txn THEN d ELSE r.d]

\* AddLog on a connection that is closed without a commit
AddLogNoCommit(d, f, day, locked) ==
    [out |-> Returned(~(locked \/ ~d.exists)), db |-> d]

\* LogDatabase.add_log: True and the row committed, or False.
AddLog(d, f, day, locked) ==
    IF locked \/ ~d.exists
    THEN [out |-> Returned(FALSE), db |-> d]
    ELSE [out |-> Returned(TRUE),
          db |-> [d EXCEPT !.rows = Append(@, Row(d.nextId, day, f)),
                           !.nextId = @ + 1]]

\* the WHERE clause get_logs builds (lines 129-138)
InRange(row, start_date, end_date) ==
    /\ start_date # "" => TextLeq(start_date, row.timestamp)
    /\ end_date # "" => TextLeq(row.timestamp, end_date)

\* the orders ORDER BY timestamp DESC can give `rows` (ties in any order)
DescendingOrders(rows) ==
    LET n == Len(rows)
        perms == { p \in [1..n -> 1..n] : \A i, j \in 1..n : i # j => p[i] # p[j] }
    IN  { [i \in 1..n |-> rows[p[i]]] : p \in
            { q \in perms : \A i \in 1..n - 1 :
                  TextLeq(rows[q[i + 1]].timestamp, rows[q[i]].timestamp) } }

\* LIMIT n: a negative n is no limit
Limit(rows, n) == IF n < 0 THEN rows ELSE SubSeq(rows, 1, Min(n, Len(rows)))

\* LogDatabase.get_logs: the lists the call can return.
GetLogs(d, limit, start_date, end_date, locked) ==
    IF locked \/ ~d.exists
    THEN { <<>> }
    ELSE LET Keep(row) == InRange(row, start_date, end_date)
         IN  { Limit(o, limit) : o \in DescendingOrders(SelectSeq(d.rows, Keep)) }

MemoHeader == "Business Intelligence Memo\n\n" \o "Key Insights Discovered:\n\n"
NoInsights == "No business insights have been discovered yet."

RECURSIVE Join(_, _)
\* sep.join(parts)
Join(sep, parts) ==
    IF Len(parts) = 0 THEN ""
    ELSE IF Len(parts) = 1 THEN parts[1]
    ELSE parts[1] \o sep \o Join(sep, Tail(parts))

Bullet(insight) == "- " \o insight

\* SynthesizeMemo with the summary added from the first insight on
SynthesizeMemoSummaryAlways(ins) ==
    IF Len(ins) = 0 THEN NoInsights
    ELSE MemoHeader
         \o Join("\n", [i \in 1..Len(ins) |-> Bullet(ins[i])])
         \o "\nSummary:\n" \o "Analysis has revealed " \o NatText(Len(ins))
         \o " key business insights that suggest opportunities for strategic optimization and growth."

\* LogDatabase._synthesize_memo
SynthesizeMemo(ins) ==
    IF Len(ins) = 0 THEN NoInsights
    ELSE MemoHeader
         \o Join("\n", [i \in 1..Len(ins) |-> Bullet(ins[i])])
         \o (IF Len(ins) > 1
             THEN "\nSummary:\n" \o "Analysis has revealed " \o NatText(Len(ins))
                  \o " key business insights that suggest opportunities for strategic optimization and growth."
             ELSE "")

-----------------------------------------------------------------------------
(* Results of handle_call_tool. *)

\* types.TextContent(type="text", text=...); for text=str(results) the value
\* rendered is kept in repr.
Text(t) == [py |-> "TextContent", text |-> t, repr |-> <<>>]
ReprText(v) == [py |-> "TextContent", text |-> "", repr |-> v]
PyList(items) == [py |-> "list", items |-> items]
PyTuple(items) == [py |-> "tuple", items |-> items]

\* the two except clauses that close handle_call_tool
Caught(out) ==
    IF out.exc = "sqlite3.Error"
    THEN PyList(<<Text("Database error: " \o out.msg)>>)
    ELSE PyList(<<Text("Error: " \o out.msg)>>)

ValueError(msg) == Raised("Exception", msg)
NoStrip == "'int' object has no attribute 'strip'"

\* one call of a LogDatabase method that reaches the store
Call(fn, query, fields, limit, start_date, end_date, failed) ==
    [fn |-> fn, query |-> query, fields |-> fields, limit |-> limit,
     start_date |-> start_date, end_date |-> end_date, failed |-> failed]
QueryCall(query, e) ==
    Call("_execute_query", query, NullFields, 0, "", "", e.out.exc # "")

\* what one branch of the handler yields: its result, the database file
\* afterwards and the store calls it made
Outcome(result, d, calls) == [result |-> result, db |-> d, calls |-> calls]
Failed(out, d) == Outcome(Caught(out), d, <<>>)

\* a branch that ends in `return [TextContent(text=str(results))]`
Rendered(query, e) ==
    Outcome(IF e.out.exc = "" THEN PyList(<<ReprText(e.out.value)>>)
            ELSE Caught(e.out),
            e.db, <<QueryCall(query, e)>>)

-----------------------------------------------------------------------------
(* The branches of handle_call_tool that touch only the store. *)

ListTablesTool(args, d, day, locked) ==
    Rendered(ListTablesSql, ExecuteQuery(d, ListTablesSql, <<>>, day, locked))

DescribeTableTool(args, d, day, locked) ==
    IF Falsy(args) \/ ~Has(args, "table_name")
    THEN Failed(ValueError("Missing table_name argument"), d)
    ELSE Rendered(DescribeTableSql,
                  ExecuteQuery(d, DescribeTableSql, <<args.kv["table_name"].s>>,
                               day, locked))

\* IsSelect that admits every text
IsSelectUnchecked(query) == TRUE

\* IsSelect without the upper-casing
IsSelectCaseSensitive(query) == StartsWith(query, "SELECT")

\* the policy of read_query
IsSelect(query) == StartsWith(Upper(query), "SELECT")

ReadQueryTool(args, d, day, locked) ==
    IF Falsy(args) \/ ~Has(args, "query")
    THEN Failed(ValueError("Missing query argument"), d)
    ELSE IF args.kv["query"].t # "str"
    THEN Failed(Raised("Exception", NoStrip), d)
    ELSE LET query == Strip(args.kv["query"].s)
         IN  IF ~IsSelect(query)
             THEN Failed(ValueError("Only SELECT queries are allowed"), d)
             ELSE Rendered(query, ExecuteQuery(d, query, <<>>, day, locked))

DefaultLimit == 10
MinLimit == 1
MaxLimit == 100

\* ClampLimit without the lower bound
ClampLimitNoFloor(limit) == IF limit < MaxLimit THEN limit ELSE MaxLimit

\* min(max(limit, 1), 100)
ClampLimit(limit) == Min(Max(limit, MinLimit), MaxLimit)

RECURSIVE Repeat(_, _)
Repeat(c, n) ==
    IF n <= 0 THEN ""
    ELSE IF n = 1 THEN c
    ELSE Repeat(c, n \div 2) \o Repeat(c, n - (n \div 2))

\* f"{cell:<width}"
PadRight(cell, width) == cell \o Repeat(" ", width - Len(cell))

IdWidth == 4
TimeWidth == 12
ShortWidth == 6
ContextWidth == 45
ContextCut == 42
SeparatorWidth == 90
TimeFrom == 5
TimeTo == 16

TableHead ==
    <<Repeat("-", SeparatorWidth),
      Join(" | ", <<PadRight("ID", IdWidth), PadRight("Time", TimeWidth),
                    PadRight("Prob", ShortWidth), PadRight("Type", ShortWidth),
                    PadRight("Context", ContextWidth)>>),
      Repeat("-", SeparatorWidth)>>

\* the cells of one rendered log row (lines 421-429)
LogCells(log) ==
    LET summary == PyStr(log.context_summary)
    IN  <<Prefix(PyStr(log.log_id), IdWidth),
          Slice(PyStr(log.timestamp), TimeFrom, TimeTo),
          Prefix(PyStr(log.probability_class), ShortWidth),
          Prefix(PyStr(log.interaction_type), ShortWidth),
          IF Len(summary) > ContextCut
          THEN Prefix(summary, ContextCut) \o "..." ELSE summary>>

LogLine(log) ==
    LET c == LogCells(log)
    IN  Join(" | ", <<PadRight(c[1], IdWidth), PadRight(c[2], TimeWidth),
                      PadRight(c[3], ShortWidth), PadRight(c[4], ShortWidth),
                      PadRight(c[5], ContextWidth)>>)

LogTable(logs) ==
    Join("\n", TableHead \o [i \in 1..Len(logs) |-> LogLine(logs[i])])

\* the arguments read-logs hands to get_logs (line 400)
ReadLogsCall(args, limit, failed) ==
    Call("get_logs", "", NullFields, limit, "", "", failed)

\* read-logs, for one of the lists get_logs can return
ReadLogsTool(args, d, day, locked, logs) ==
    IF Falsy(args)
    THEN Outcome(PyList(<<Text("No arguments provided")>>), d, <<>>)
    ELSE LET given == IF Has(args, "limit") THEN args.kv["limit"]
                      ELSE IntV(DefaultLimit)
         IN  IF given.t = "str"
             THEN Failed(Raised("Exception",
                      "'>' not supported between instances of 'int' and 'str'"), d)
             ELSE LET call == ReadLogsCall(args, ClampLimit(given.n),
                                           locked \/ ~d.exists)
                  IN  IF Len(logs) = 0
                      THEN Outcome(PyList(<<Text("No logs found")>>), d, <<call>>)
                      ELSE Outcome(PyList(<<Text(LogTable(logs))>>), d, <<call>>)

\* the lists get_logs can return to read-logs
ReadLogsLists(args, d, locked) ==
    IF Falsy(args) \/ (Has(args, "limit") /\ args.kv["limit"].t = "str")
    THEN { <<>> }
    ELSE LET call == ReadLogsCall(args,
                         ClampLimit(IF Has(args, "limit") THEN args.kv["limit"].n
                                    ELSE DefaultLimit), FALSE)
         IN  GetLogs(d, call.limit, call.start_date, call.end_date, locked)

LogFieldNames ==
    {"session_id", "user_id", "interaction_type", "probability_class",
     "message_content", "response_content", "context_summary", "reasoning"}

\* arguments.get(key, "") for the eight fields
LogFields(args) ==
    [k \in LogFieldNames |-> IF Has(args, k) THEN args.kv[k].s ELSE ""]

LogQueryTool(args, d, day, locked) ==
    IF args.none
    THEN Failed(Raised("Exception", "'NoneType' object has no attribute 'get'"), d)
    ELSE LET f == LogFields(args)
             a == AddLog(d, f, day, locked)
         IN  Outcome(PyTuple(<<PyList(<<Text(IF a.out.value
                                             THEN "Log entry added successfully"
                                             ELSE "Failed to add log entry")>>)>>),
                     a.db,
                     <<Call("add_log", "", f, 0, "", "", ~a.out.value)>>)

\* the policy of write_query
IsNotSelect(text) == ~StartsWith(Upper(Strip(text)), "SELECT")
\* the policy of create_table
IsCreateTable(text) == StartsWith(Upper(Strip(text)), "CREATE TABLE")

\* arguments["query"].strip() of the last two branches, before the policy
QueryArgument(args) ==
    IF ~Has(args, "query") THEN Raised("Exception", "'query'")
    ELSE IF args.kv["query"].t # "str" THEN Raised("Exception", NoStrip)
    ELSE Returned(args.kv["query"].s)

WriteQueryTool(args, d, day, locked) ==
    IF Falsy(args) THEN Failed(ValueError("Missing arguments"), d)
    ELSE IF QueryArgument(args).exc # "" THEN Failed(QueryArgument(args), d)
    ELSE LET query == QueryArgument(args).value
         IN  IF ~IsNotSelect(query)
             THEN Failed(ValueError("SELECT queries are not allowed for write_query"), d)
             ELSE Rendered(query, ExecuteQuery(d, query, <<>>, day, locked))

CreateTableTool(args, d, day, locked) ==
    IF Falsy(args) THEN Failed(ValueError("Missing arguments"), d)
    ELSE IF QueryArgument(args).exc # "" THEN Failed(QueryArgument(args), d)
    ELSE LET query == QueryArgument(args).value
             e == ExecuteQuery(d, query, <<>>, day, locked)
         IN  IF ~IsCreateTable(query)
             THEN Failed(ValueError("Only CREATE TABLE statements are allowed"), d)
             ELSE Outcome(IF e.out.exc = ""
                          THEN PyList(<<Text("Table created successfully")>>)
                          ELSE Caught(e.out),
                          e.db, <<QueryCall(query, e)>>)

\* a name none of the branches matches
UnknownTool(name, args, d) ==
    IF Falsy(args) THEN Failed(ValueError("Missing arguments"), d)
    ELSE Failed(ValueError("Unknown tool: " \o name), d)

-----------------------------------------------------------------------------
(* append_insight: the code up to the await, and the code after it. *)

MemoUri == "memo://insights"

\* AppendInsightSteps with the notification sent before the append
AppendInsightNotifyFirst(ins, notes, insight, by) ==
    [insights |-> Append(ins, insight),
     memo |-> SynthesizeMemo(Append(ins, insight)),
     notifications |-> Append(notes, [uri |-> "memo://insights", by |-> by,
                                      seen |-> ins, state |-> "sending"])]

\* AppendInsightSteps with the memo synthesized before the append
AppendInsightStaleMemo(ins, notes, insight, by) ==
    [insights |-> Append(ins, insight),
     memo |-> SynthesizeMemo(ins),
     notifications |-> Append(notes, [uri |-> "memo://insights", by |-> by,
                                      seen |-> Append(ins, insight),
                                      state |-> "sending"])]

\* AppendInsightSteps with the insight put in front of the sequence
AppendInsightPrepend(ins, notes, insight, by) ==
    [insights |-> <<insight>> \o ins,
     memo |-> SynthesizeMemo(<<insight>> \o ins),
     notifications |-> Append(notes, [uri |-> "memo://insights", by |-> by,
                                      seen |-> <<insight>> \o ins,
                                      state |-> "sending"])]

\* lines 476-480: append, re-synthesize, hand the notification to the
\* session.  `by` numbers the invocation; `seen` is the insight sequence a
\* client reading the memo on this notification finds; `state` is
\* "sending" until the await ends, then "sent" or "failed".
AppendInsightSteps(ins, notes, insight, by) ==
    LET appended == Append(ins, insight)
    IN  [insights |-> appended,
         memo |-> SynthesizeMemo(appended),
         notifications |-> Append(notes, [uri |-> MemoUri, by |-> by,
                                          seen |-> appended, state |-> "sending"])]

\* line 482, or the except clause when send_resource_updated raised
AppendInsightReturn(sent) ==
    IF sent THEN PyList(<<Text("Insight added to memo")>>)
    ELSE Caught(Raised("Exception", "session closed"))

-----------------------------------------------------------------------------
(* The inputs the model draws. *)

CreateSql ==
    "CREATE TABLE chat_monitoring (log_id INTEGER PRIMARY KEY AUTOINCREMENT, "
    \o "timestamp DATETIME DEFAULT CURRENT_TIMESTAMP, session_id TEXT, "
    \o "user_id TEXT, interaction_type TEXT, probability_class TEXT, "
    \o "message_content TEXT, response_content TEXT, context_summary TEXT, "
    \o "reasoning TEXT)"

Queries ==
    { "SELECT * FROM chat_monitoring",
      "  select * from chat_monitoring\n",
      "SELECTED",
      "INSERT INTO chat_monitoring DEFAULT VALUES",
      "\tInsert Into chat_monitoring Default Values ",
      "REPLACE INTO chat_monitoring DEFAULT VALUES",
      "DELETE FROM chat_monitoring",
      CreateSql,
      " create table chat_monitoring (log_id INTEGER PRIMARY KEY AUTOINCREMENT)",
      "CREATE TABLES",
      "   " }

QueryBags ==
    { NoneBag, Bag(<<>>), Bag([sql |-> StrV("SELECT 1")]), Bag([query |-> IntV(7)]) }
    \cup { Bag([query |-> StrV(q)]) : q \in Queries }

LongSummary == "User asked for the same export nine times in a row"

ValidLow ==
    [session_id |-> StrV("20240124_u1_001"), user_id |-> StrV("u1"),
     interaction_type |-> StrV("technical_issue"),
     probability_class |-> StrV("LOW"), message_content |-> StrV("export again"),
     response_content |-> StrV("exported"),
     context_summary |-> StrV(LongSummary), reasoning |-> StrV("repetition")]

LogBags ==
    { NoneBag, Bag(ValidLow),
      Bag([session_id |-> StrV("20240124_u1_002"),
           probability_class |-> StrV("URGENT")]) }

\* an ISO date argument for day d
IsoStart(d) == "2024-01-0" \o NatText(d) \o "T00:00:00"
IsoEnd(d) == "2024-01-0" \o NatText(d) \o "T23:59:59"

Limits == {-3, 0, 1, 2, 100, 101, 500}

ReadLogsBags ==
    { NoneBag, Bag(<<>>), Bag([full_details |-> BoolV(TRUE)]),
      Bag([limit |-> StrV("5")]) }
    \cup { Bag([limit |-> IntV(k)]) : k \in Limits }
    \cup { Bag([limit |-> IntV(100), start_date |-> StrV(IsoStart(2)),
                end_date |-> StrV(IsoEnd(2))]),
           Bag([limit |-> IntV(1), end_date |-> StrV(IsoEnd(1))]) }

TableBags == { NoneBag, Bag(<<>>), Bag([table_name |-> StrV(TableName)]) }

NoArgBags == { NoneBag, Bag(<<>>) }

InsightTexts == { "churn is rising", "margins fell in Q3" }
InsightBags ==
    { NoneBag, Bag(<<>>), Bag([note |-> StrV("churn is rising")]) }
    \cup { Bag([insight |-> StrV(x)]) : x \in InsightTexts }

ToolNames ==
    { "list_tables", "describe_table", "read_query", "read-logs", "log-query",
      "append_insight", "write_query", "create_table" }

UnknownNames == { "drop_table", "read_logs" }
UnknownBags == { NoneBag, Bag(<<>>), Bag([query |-> StrV("SELECT * FROM chat_monitoring")]) }

-----------------------------------------------------------------------------
(* The state machine. *)

\* no result is waiting to be sent
Idle ==
    [name |-> "", args |-> NoneBag, result |-> PyList(<<>>), calls |-> <<>>,
     memo |-> "", id |-> 0]

Done(name, args, o) ==
    [name |-> name, args |-> args, result |-> o.result, calls |-> o.calls,
     memo |-> "", id |-> 0]

Init ==
    /\ db \in { [exists |-> e, sql |-> IF e THEN CreateSql ELSE "", rows |-> <<>>,
                 nextId |-> 1] : e \in BOOLEAN }
    /\ clock = 1
    /\ insights = <<>>
    /\ pending = {}
    /\ notifications = <<>>
    /\ submitted = <<>>
    /\ last = Idle

\* a store-only handler ran to its return
Finish(name, args, o) ==
    /\ o.db.nextId <= MaxId + 1
    /\ db' = o.db
    /\ last' = Done(name, args, o)
    /\ UNCHANGED <<clock, insights, pending, notifications, submitted>>

ListTables ==
    /\ last = Idle
    /\ \E args \in NoArgBags, locked \in BOOLEAN :
        Finish("list_tables", args, ListTablesTool(args, db, clock, locked))

DescribeTable ==
    /\ last = Idle
    /\ \E args \in TableBags, locked \in BOOLEAN :
        Finish("describe_table", args, DescribeTableTool(args, db, clock, locked))

ReadQuery ==
    /\ last = Idle
    /\ \E args \in QueryBags, locked \in BOOLEAN :
        Finish("read_query", args, ReadQueryTool(args, db, clock, locked))

ReadLogs ==
    /\ last = Idle
    /\ \E args \in ReadLogsBags, locked \in BOOLEAN :
        \E logs \in ReadLogsLists(args, db, locked) :
            Finish("read-logs", args, ReadLogsTool(args, db, clock, locked, logs))

LogQuery ==
    /\ last = Idle
    /\ \E args \in LogBags, locked \in BOOLEAN :
        Finish("log-query", args, LogQueryTool(args, db, clock, locked))

WriteQuery ==
    /\ last = Idle
    /\ \E args \in QueryBags, locked \in BOOLEAN :
        Finish("write_query", args, WriteQueryTool(args, db, clock, locked))

CreateTable ==
    /\ last = Idle
    /\ \E args \in QueryBags, locked \in BOOLEAN :
        Finish("create_table", args, CreateTableTool(args, db, clock, locked))

Unknown ==
    /\ last = Idle
    /\ \E name \in UnknownNames, args \in UnknownBags :
        Finish(name, args, UnknownTool(name, args, db))

\* append_insight without an insight argument: lines 473-474
AppendInsightRejected ==
    /\ last = Idle
    /\ \E args \in InsightBags :
        /\ Falsy(args) \/ ~Has(args, "insight")
        /\ last' = Done("append_insight", args,
                        Failed(ValueError("Missing insight argument"), db))
        /\ UNCHANGED <<db, clock, insights, pending, notifications, submitted>>

\* append_insight up to its await
AppendInsightCall ==
    /\ last = Idle
    /\ \E args \in InsightBags :
        /\ ~Falsy(args) /\ Has(args, "insight")
        /\ Len(submitted) < MaxInsights
        /\ Cardinality(pending) < MaxPending
        /\ LET by == Len(submitted) + 1
               s == AppendInsightSteps(insights, notifications, args.kv["insight"].s, by)
           IN  /\ insights' = s.insights
               /\ notifications' = s.notifications
               /\ pending' = pending \cup { [id |-> by, args |-> args, memo |-> s.memo] }
               /\ submitted' = Append(submitted, args.kv["insight"].s)
        /\ UNCHANGED <<db, clock, last>>

\* the await ends: the notification went out, or the session raised
AppendInsightResume ==
    /\ last = Idle
    /\ \E p \in pending, sent \in BOOLEAN :
        /\ pending' = pending \ {p}
        /\ notifications' =
               [notifications EXCEPT ![p.id].state = IF sent THEN "sent" ELSE "failed"]
        /\ last' = [name |-> "append_insight", args |-> p.args,
                    result |-> AppendInsightReturn(sent), calls |-> <<>>,
                    memo |-> p.memo, id |-> p.id]
        /\ UNCHANGED <<db, clock, insights, submitted>>

\* the store clock moves on
Tick ==
    /\ last = Idle
    /\ clock < MaxTime
    /\ clock' = clock + 1
    /\ UNCHANGED <<db, insights, pending, notifications, submitted, last>>

\* the session sends the waiting result to the caller
Respond ==
    /\ last # Idle
    /\ last' = Idle
    /\ UNCHANGED <<db, clock, insights, pending, notifications, submitted>>

\* the operations on the store
NextStore ==
    \/ ListTables
    \/ DescribeTable
    \/ ReadQuery
    \/ ReadLogs
    \/ LogQuery
    \/ WriteQuery
    \/ CreateTable
    \/ Unknown
    \/ Tick
    \/ Respond

\* the operations on the insight memo
NextMemo ==
    \/ AppendInsightRejected
    \/ AppendInsightCall
    \/ AppendInsightResume
    \/ Respond

Next == NextStore \/ NextMemo

Spec == Init /\ [][Next]_vars
SpecStore == Init /\ [][NextStore]_vars
SpecMemo == Init /\ [][NextMemo]_vars

\* every operation of the dispatcher, with the store clock standing still
NextLifetime ==
    \/ ListTables
    \/ DescribeTable
    \/ ReadQuery
    \/ ReadLogs
    \/ LogQuery
    \/ WriteQuery
    \/ CreateTable
    \/ Unknown
    \/ AppendInsightRejected
    \/ AppendInsightCall
    \/ AppendInsightResume
    \/ Respond

SpecLifetime == Init /\ [][NextLifetime]_vars

-----------------------------------------------------------------------------
(* Reading results. *)

\* a list of TextContent entries
IsTextList(r) ==
    /\ r.py = "list"
    /\ \A i \in 1..Len(r.items) : r.items[i].py = "TextContent"

\* a list of one TextContent entry whose text is t
IsText(r, t) == r = PyList(<<Text(t)>>)

\* one text entry written by an except clause of the handler
IsErrorText(r) ==
    /\ IsTextList(r)
    /\ Len(r.items) = 1
    /\ \/ StartsWith(r.items[1].text, "Error: ")
       \/ StartsWith(r.items[1].text, "Database error: ")

\* the lines of a text
Lines(s) ==
    LET breaks == { i \in 1..Len(s) : CharAt(s, i) = "\n" }
        n == Cardinality(breaks)
        at(k) == IF k = 0 THEN 0
                 ELSE IF k = n + 1 THEN Len(s) + 1
                 ELSE CHOOSE i \in breaks : Cardinality({ j \in breaks : j < i }) = k - 1
    IN  [k \in 1..n + 1 |-> SubSeq(s, at(k - 1) + 1, at(k) - 1)]

\* sub occurs in s
Contains(s, sub) ==
    \E i \in 1..(Len(s) - Len(sub) + 1) : SubSeq(s, i, i + Len(sub) - 1) = sub

HasStoreCall == last.calls # <<>>

-----------------------------------------------------------------------------
(* C1 *)

\* C1: whatever the operation name, the argument bag and the store outcome,
\* handle_call_tool ends by returning a list of text entries.
C1_ResultIsTextList == last # Idle => IsTextList(last.result)

-----------------------------------------------------------------------------
(* C2 *)

HasQueryText(args) == Has(args, "query") /\ args.kv["query"].t = "str"

\* C2: read_query hands the text to the store iff, trimmed and upper-cased,
\* it starts with SELECT; write_query iff it does not; create_table iff it
\* starts with CREATE TABLE; a rejected text yields an error text and no
\* store call.
C2_PolicyDecidesStoreCall ==
    LET given == last.args.kv["query"].s
        text == Upper(Strip(given))
    IN  (last.name \in {"read_query", "write_query", "create_table"}
            /\ HasQueryText(last.args)) =>
        /\ last.name = "read_query" => (HasStoreCall <=> StartsWith(text, "SELECT"))
        /\ last.name = "write_query" => (HasStoreCall <=> ~StartsWith(text, "SELECT"))
        /\ last.name = "create_table" =>
               (HasStoreCall <=> StartsWith(text, "CREATE TABLE"))
        /\ HasStoreCall =>
               /\ Len(last.calls) = 1
               /\ last.calls[1].fn = "_execute_query"
               /\ last.calls[1].query =
                      IF last.name = "read_query" THEN Strip(given) ELSE given
        /\ ~HasStoreCall =>
               /\ IsErrorText(last.result)
               /\ StartsWith(last.result.items[1].text, "Error: ")

\* a lower-case, padded SELECT reached the store through read_query
C2_Witness ==
    /\ last.name = "read_query"
    /\ HasQueryText(last.args)
    /\ last.args.kv["query"].s = "  select * from chat_monitoring\n"
    /\ HasStoreCall
    /\ last.calls[1].query = "select * from chat_monitoring"

-----------------------------------------------------------------------------
(* C3 *)

\* the "required" lists of the input schemas
RequiredArguments(name) ==
    CASE name = "log-query" -> LogFieldNames
      [] name = "read-logs" -> {"limit"}
      [] name \in {"read_query", "write_query", "create_table"} -> {"query"}
      [] name = "describe_table" -> {"table_name"}
      [] name = "append_insight" -> {"insight"}
      [] OTHER -> {}

LacksRequired(name, args) == RequiredArguments(name) \ DOMAIN args.kv # {}

\* C3: an invocation whose bag lacks a required field is answered with an
\* error and never reaches the store.
C3_MissingFieldNotAttempted ==
    (last # Idle /\ LacksRequired(last.name, last.args)) =>
        /\ ~HasStoreCall
        /\ IsErrorText(last.result) \/ IsText(last.result, "No arguments provided")

-----------------------------------------------------------------------------
(* C4 *)

\* C4: a name outside the eight registered ones is answered, for every bag,
\* with the error that names it as unknown.
C4_UnknownNameReported ==
    (last # Idle /\ last.name \notin ToolNames) =>
        IsText(last.result, "Error: Unknown tool: " \o last.name)

-----------------------------------------------------------------------------
(* C5 *)

ProbabilityClasses == {"HIGH", "MEDIUM", "LOW"}

\* C5: log-query calls add_log only with a probability_class among HIGH,
\* MEDIUM and LOW; any other value, or none, is turned away before the store,
\* so no record with another class is ever stored by it.
C5_OnlyValidClassReachesStore ==
    last.name = "log-query" =>
        \A i \in 1..Len(last.calls) :
            last.calls[i].fields.probability_class \in ProbabilityClasses

\* log-query answered that the entry was added
LogAdded ==
    /\ last.name = "log-query"
    /\ HasStoreCall
    /\ ~last.calls[1].failed

-----------------------------------------------------------------------------
(* C6 *)

\* the log rows of a read-logs result: the table's lines after its head
RenderedLogRows(r) ==
    IF IsText(r, "No logs found") THEN 0
    ELSE Len(Lines(r.items[1].text)) - Len(TableHead)

HasIntLimit(args) == Has(args, "limit") /\ args.kv["limit"].t = "int"

\* C6: for every integer limit, get_logs is asked for min(max(limit, 1), 100)
\* records and the result shows no more log rows than that.
C6_LimitClampedAndRespected ==
    (last.name = "read-logs" /\ HasIntLimit(last.args)) =>
        LET given == last.args.kv["limit"].n
            clamped == IF given < 1 THEN 1 ELSE IF given > 100 THEN 100 ELSE given
        IN  /\ Len(last.calls) = 1
            /\ last.calls[1].fn = "get_logs"
            /\ last.calls[1].limit = clamped
            /\ RenderedLogRows(last.result) <= clamped

\* limit 0 on a table of two records: one record asked for, one row shown
C6_Witness ==
    /\ last.name = "read-logs"
    /\ HasIntLimit(last.args)
    /\ last.args.kv["limit"].n = 0
    /\ Len(db.rows) >= 2
    /\ last.calls[1].limit = 1
    /\ RenderedLogRows(last.result) = 1

-----------------------------------------------------------------------------
(* C7 *)

DateArgument(args, key) == IF Has(args, key) THEN args.kv[key].s ELSE ""

\* C7: with start_date and/or end_date in the bag, read-logs shows the
\* newest `limit` records whose timestamp lies in the range, newest first.
C7_ReadLogsHonoursDateRange ==
    (/\ last.name = "read-logs"
     /\ HasStoreCall
     /\ Has(last.args, "start_date") \/ Has(last.args, "end_date")) =>
        \/ last.calls[1].failed
        \/ \E logs \in GetLogs(db, last.calls[1].limit,
                               DateArgument(last.args, "start_date"),
                               DateArgument(last.args, "end_date"), FALSE) :
               IsText(last.result,
                      IF Len(logs) = 0 THEN "No logs found" ELSE LogTable(logs))

-----------------------------------------------------------------------------
(* C8 *)

BulletLines(memo) ==
    LET IsBullet(line) == StartsWith(line, "- ")
    IN  SelectSeq(Lines(memo), IsBullet)

SummaryLines(memo) ==
    LET IsSummary(line) == StartsWith(line, "Analysis has revealed ")
    IN  SelectSeq(Lines(memo), IsSummary)

\* C8: after N invocations of append_insight that carried an insight, the
\* memo is the fixed message when N = 0 and otherwise has exactly N bullet
\* lines, the i-th being the i-th insight submitted, with the summary line
\* stating N iff N > 1.
C8_MemoListsInsightsInOrder ==
    LET memo == SynthesizeMemo(insights)
        N == Len(submitted)
    IN  /\ N = 0 => memo = "No business insights have been discovered yet."
        /\ N > 0 =>
               /\ BulletLines(memo) = [i \in 1..N |-> "- " \o submitted[i]]
               /\ Len(SummaryLines(memo)) = IF N > 1 THEN 1 ELSE 0
               /\ \A i \in 1..Len(SummaryLines(memo)) :
                      StartsWith(SummaryLines(memo)[i],
                                 "Analysis has revealed " \o NatText(N) \o " key")
               /\ ("Summary:" \in { Lines(memo)[i] : i \in 1..Len(Lines(memo)) })
                      <=> N > 1

\* two different insights were appended and both invocations have returned
C8_Witness ==
    /\ Len(submitted) = 2
    /\ submitted[1] # submitted[2]
    /\ pending = {}
    /\ Len(SummaryLines(SynthesizeMemo(insights))) = 1

-----------------------------------------------------------------------------
(* C9 *)

SelectAll == "SELECT * FROM chat_monitoring"

\* a bag with all eight fields and a probability_class of the enumeration
IsValidLog(args) ==
    /\ LogFieldNames \subseteq DOMAIN args.kv
    /\ args.kv["probability_class"].s \in ProbabilityClasses

\* the row holds the eight values of the bag
HoldsSubmitted(row, args) ==
    \A k \in LogFieldNames : row[k] = args.kv[k].s

\* read-logs was answered with a table and asked for at least every record
ReadAllLogs ==
    /\ last.name = "read-logs"
    /\ HasStoreCall
    /\ ~last.calls[1].failed
    /\ last.calls[1].limit >= Len(db.rows)
    /\ Len(db.rows) > 0

\* the records in the table that a valid log-query wrote
ValidRows ==
    { i \in 1..Len(db.rows) : db.rows[i].probability_class \in ProbabilityClasses }

-----------------------------------------------------------------------------
(* C10 *)

Confirmed == last.name = "append_insight" /\ IsText(last.result, "Insight added to memo")

\* C10: each append_insight with an insight appends, re-synthesizes, sends one
\* notification for memo://insights and only then confirms; one without an
\* insight appends nothing and sends nothing.
C10_AppendThenNotifyThenConfirm ==
    /\ Len(insights) = Len(submitted)
    /\ Len(notifications) = Len(submitted)
    /\ \A i \in 1..Len(notifications) :
           /\ notifications[i].uri = "memo://insights"
           /\ notifications[i].by = i
           /\ Len(notifications[i].seen) = i
           /\ notifications[i].seen[i] = submitted[i]
    /\ \A p \in pending :
           /\ notifications[p.id].state = "sending"
           /\ Contains(p.memo, "- " \o p.args.kv["insight"].s)
    /\ Confirmed =>
           /\ last.id \in 1..Len(notifications)
           /\ notifications[last.id].state = "sent"
           /\ insights[last.id] = last.args.kv["insight"].s
           /\ Contains(last.memo, "- " \o last.args.kv["insight"].s)
    /\ (last.name = "append_insight" /\ ~Has(last.args, "insight")) =>
           /\ last.id = 0
           /\ IsText(last.result, "Error: Missing insight argument")

\* the second append was confirmed after its notification went out
C10_Witness ==
    /\ Confirmed
    /\ last.id = 2
    /\ Len(notifications) = 2
    /\ notifications[2].state = "sent"

-----------------------------------------------------------------------------
(* C11 *)

\* the messages the store can have raised for the first call of the waiting
\* result (a failed call leaves the database as it was)
UnderlyingMessages ==
    LET call == last.calls[1]
        err == Execute(db, call.query, <<>>, clock).err
    IN  {Locked}
        \cup (IF call.fn = "_execute_query" THEN {err} \ {""}
              ELSE {"no such table: " \o TableName})

\* C11: when the store call of an operation fails, the result is an error
\* text that carries the store's message; it is never a success text or an
\* empty result such as "No logs found".
C11_StoreFailureReported ==
    (HasStoreCall /\ last.calls[1].failed) =>
        /\ IsErrorText(last.result)
        /\ \E m \in UnderlyingMessages : Contains(last.result.items[1].text, m)

-----------------------------------------------------------------------------
(* C12 *)

\* C12: a write_query whose text passes the policy and runs without error
\* leaves the statement's effect committed and answers with one
\* affected-row count, whatever the leading keyword.
C12_WriteQueryCommits ==
    [][(/\ last' # last
        /\ last'.name = "write_query"
        /\ last'.calls # <<>>
        /\ ~last'.calls[1].failed) =>
           LET r == Execute(db, last'.calls[1].query, <<>>, clock)
           IN  /\ db' = r.d
               /\ last'.result =
                      PyList(<<ReprText(<<[affected_rows |-> r.rowcount]>>)>>)]_vars

-----------------------------------------------------------------------------
(* C13 *)

\* the memo of invocation number id lists the first id insights submitted
\* and ends with the invocation's own
MemoEndsWithOwn(memo, args, id) ==
    /\ BulletLines(memo) = [i \in 1..id |-> "- " \o submitted[i]]
    /\ BulletLines(memo)[id] = "- " \o args.kv["insight"].s

\* C13: with several append_insight invocations suspended at their await and
\* resumed in any order, the sequence holds every submitted insight exactly
\* once in the order of the appends, and the memo each invocation synthesized
\* ends with its own insight.
C13_AppendsAreMutuallyExclusive ==
    /\ insights = submitted
    /\ \A p, q \in pending : p.id = q.id => p = q
    /\ \A p \in pending :
           /\ p.id \in 1..Len(insights)
           /\ insights[p.id] = p.args.kv["insight"].s
           /\ MemoEndsWithOwn(p.memo, p.args, p.id)
    /\ (last.name = "append_insight" /\ last.id > 0) =>
           /\ last.id \in 1..Len(insights)
           /\ insights[last.id] = last.args.kv["insight"].s
           /\ \A p \in pending : p.id # last.id
           /\ MemoEndsWithOwn(last.memo, last.args, last.id)

\* the second invocation has returned while the first is still suspended
C13_Witness ==
    /\ last.name = "append_insight"
    /\ last.id = 2
    /\ \E p \in pending : p.id = 1
    /\ Len(BulletLines(last.memo)) = 2

-----------------------------------------------------------------------------
(* C14 *)

\* C14: every step of every operation leaves the previous insight sequence
\* as a prefix of the new one; the sequence changes only when an
\* append_insight that carries an insight runs, by that one entry at its end.
C14_InsightsAppendOnly ==
    [][/\ Len(insights') >= Len(insights)
       /\ SubSeq(insights', 1, Len(insights)) = insights
       /\ insights' # insights =>
              /\ Len(insights') = Len(insights) + 1
              /\ \E p \in pending' \ pending :
                     /\ Has(p.args, "insight")
                     /\ insights'[Len(insights')] = p.args.kv["insight"].s]_vars

\* two insights are kept, one of them after its notification failed, and a
\* write to the store has run since
C14_Witness ==
    /\ Len(insights) = 2
    /\ pending = {}
    /\ \E i \in 1..Len(notifications) : notifications[i].state = "failed"
    /\ last.name = "write_query"
    /\ HasStoreCall
    /\ ~last.calls[1].failed

-----------------------------------------------------------------------------
(* C15 *)

ReadShaped == {"read_query", "read-logs", "list_tables", "describe_table"}

\* C15: an invocation of read_query, read-logs, list_tables or
\* describe_table, whatever its bag and its outcome, leaves the committed
\* store as it was, and no text read_query hands to the store takes the
\* commit branch of _execute_query.
C15_ReadShapedLeaveStoreUnchanged ==
    [][(last' # last /\ last'.name \in ReadShaped) =>
           /\ db' = db
           /\ (last'.name = "read_query" /\ last'.calls # <<>>) =>
                  ~IsWriteStatement(last'.calls[1].query)]_vars

\* read_query ran a SELECT on a table that holds records
C15_Witness ==
    /\ last.name = "read_query"
    /\ HasStoreCall
    /\ ~last.calls[1].failed
    /\ Len(db.rows) >= 1
    /\ last.result = PyList(<<ReprText(db.rows)>>)

====
